---- MODULE Spec2Model ----
(***************************************************************************)
(* A model of summary.py: the token cache (get_access_token,               *)
(* refresh_access_token), the paginated fetch (fetch_activities), the      *)
(* aggregation (summarize_by_client), the CSV export (export_to_csv) and   *)
(* the __main__ pipeline that chains them.                                 *)
(*                                                                         *)
(* Time is the UTC clock in whole seconds.  The token endpoint and the     *)
(* activities endpoint are the environment: each answer is chosen          *)
(* nondeterministically when the request is sent.                          *)
(***************************************************************************)
EXTENDS Integers, Sequences, FiniteSets, TLC

VARIABLES
    pc,              \* position of __main__: start, fetch, summarize, export, done, aborted
    now,             \* datetime.utcnow(), in seconds
    tokenFile,       \* contents of TOKEN_FILE on disk
    issued,          \* number of access tokens the provider has issued so far
    lastCall,        \* observation of the most recent get_access_token call
    lastRefresh,     \* observation of the most recent successful refresh
    access_token,    \* __main__'s access_token
    params,          \* fetch_activities: params["page_start_id"] ("unset" if the key is not set)
    page_start_id,   \* fetch_activities: local page_start_id
    all_activities,  \* fetch_activities: local all_activities
    requests,        \* page_start_id parameter of every GET sent, in order
    responses,       \* every answer of the activities endpoint, in order
    activities,      \* __main__'s activities
    summary,         \* __main__'s summary: insertion-ordered dict, as a sequence of entries
    csv              \* rows of hubstaff_summary_by_client.csv (<<>>: not written)

vars == <<pc, now, tokenFile, issued, lastCall, lastRefresh, access_token, params, page_start_id,
          all_activities, requests, responses, activities, summary, csv>>

fetchVars == <<params, page_start_id, all_activities, requests, responses, activities>>

----------------------------------------------------------------------------
(* Bounds of the model *)

StartTime  == 3598     \* clock reading of the first run
MaxElapsed == 4        \* the clock is followed for this many seconds
MaxTokens  == 4        \* tokens the provider issues at most
MaxPages   == 3        \* requests one fetch sends at most
MaxLen     == 3        \* length of the activity lists given to summarize_by_client

(* Program constants *)

Buffer   == 60         \* "expires_in - 60  # small buffer"
StatusOK == 200        \* the only status both endpoints' callers accept

ExpiresIns == {0, 60, 61, 62}      \* expires_in values the provider reports
NoToken    == 0                     \* no token (None)
OldToken   == 1                     \* the token issued before the first run

----------------------------------------------------------------------------
(* datetime.isoformat / datetime.fromisoformat, on the time of day:        *)
(* a timestamp string is the sequence <<hours, minutes, seconds>>.         *)

isoformat(t) == <<t \div 3600, (t % 3600) \div 60, t % 60>>

\* fromisoformat raises ValueError on a string that is no timestamp
IsIsoFormat(s) == Len(s) = 3 /\ s[2] < 60 /\ s[3] < 60

fromisoformat(s) == s[1] * 3600 + s[2] * 60 + s[3]

----------------------------------------------------------------------------
(* The token cache file.  exists: os.path.exists; json: json.load parses   *)
(* it; keys: the keys of the parsed object.                                *)

NoFile == [exists |-> FALSE, json |-> FALSE, keys |-> {},
           access_token |-> NoToken, expires_at |-> <<>>]

TokenRecord(tok, exp) ==
    [exists |-> TRUE, json |-> TRUE, keys |-> {"access_token", "expires_at"},
     access_token |-> tok, expires_at |-> exp]

\* a file whose content json.load parses and whose expires_at parses
Parses(f) ==
    /\ f.exists
    /\ f.json
    /\ "expires_at" \in f.keys
    /\ IsIsoFormat(f.expires_at)

\* files found on disk at the first run: none, broken ones, records around now
InitFiles(t) ==
    {NoFile}
    \cup {[NoFile EXCEPT !.exists = TRUE]}                              \* invalid JSON
    \cup {[TokenRecord(NoToken, isoformat(t + d)) EXCEPT !.keys = {"expires_at"}]
             : d \in {0, 1}}                                            \* no access_token
    \cup {[TokenRecord(OldToken, <<>>) EXCEPT !.keys = {"access_token"}]} \* no expires_at
    \cup {TokenRecord(OldToken, <<0, 99, 0>>)}                          \* no timestamp
    \cup {TokenRecord(OldToken, isoformat(t + d)) : d \in {-1, 0, 1, 2}}

----------------------------------------------------------------------------
(* refresh_access_token: the answer of the token endpoint is resp.         *)

NoResp == [status |-> 0, access_token |-> NoToken, refresh_token |-> NoToken,
           expires_in |-> 0]

TokenResponses(n) ==
    {[status |-> 401, access_token |-> NoToken, refresh_token |-> NoToken,
      expires_in |-> 0]}
    \cup {[status |-> StatusOK, access_token |-> n + 1, refresh_token |-> n + 1,
           expires_in |-> e] : e \in ExpiresIns}

RefreshNoStatusCheck(resp) ==
    [raised |-> FALSE, access_token |-> resp.access_token,
     refresh_token |-> resp.refresh_token, expires_in |-> resp.expires_in]

refresh_access_token(resp) ==
    IF resp.status # StatusOK
    THEN [raised |-> TRUE, access_token |-> NoToken, refresh_token |-> NoToken,
          expires_in |-> 0]
    ELSE [raised |-> FALSE, access_token |-> resp.access_token,
          refresh_token |-> resp.refresh_token, expires_in |-> resp.expires_in]

----------------------------------------------------------------------------
(* get_access_token *)

NotExpiredInclusive(t, expires_at) == t <= expires_at

NotExpiredReversed(t, expires_at) == t > expires_at

\* line 28: datetime.utcnow() < expires_at
NotExpired(t, expires_at) == t < expires_at

NewExpiryNoBuffer(t, expires_in) == t + expires_in

\* line 38: datetime.utcnow() + timedelta(seconds=expires_in - 60)
NewExpiry(t, expires_in) == t + (expires_in - Buffer)

\* lines 24-30: what reading the cache gives.
\*   "miss": no file, or an expired record: go on to the refresh
\*   "hit": return the cached token
\*   "error": json.load, token_data[...] or fromisoformat raised
ReadCache(f, t) ==
    IF ~f.exists THEN "miss"
    ELSE IF ~f.json THEN "error"
    ELSE IF "expires_at" \notin f.keys THEN "error"
    ELSE IF ~IsIsoFormat(f.expires_at) THEN "error"
    ELSE IF NotExpired(t, fromisoformat(f.expires_at))
         THEN (IF "access_token" \in f.keys THEN "hit" ELSE "error")
    ELSE "miss"

\* the whole call: outcome, returned token, file afterwards, refresh calls made
get_access_token(f, t, resp) ==
    LET read == ReadCache(f, t)
        r    == refresh_access_token(resp)
    IN  IF read = "hit"
        THEN [outcome |-> "cached", token |-> f.access_token, file |-> f,
              refreshes |-> 0]
        ELSE IF read = "error"
        THEN [outcome |-> "cache_error", token |-> NoToken, file |-> f,
              refreshes |-> 0]
        ELSE IF r.raised
        THEN [outcome |-> "refresh_error", token |-> NoToken, file |-> f,
              refreshes |-> 1]
        ELSE [outcome |-> "refreshed", token |-> r.access_token,
              file |-> TokenRecord(r.access_token,
                                   isoformat(NewExpiry(t, r.expires_in))),
              refreshes |-> 1]

NoCall == [before |-> NoFile, at |-> 0, outcome |-> "none", token |-> NoToken,
           refreshes |-> 0, resp |-> NoResp]

NoRefresh == [at |-> -1, expires_in |-> 0, access_token |-> NoToken]

----------------------------------------------------------------------------
(* Activity records: a JSON object is a function from the keys it has.     *)

rA         == [client |-> "A", tracked |-> 2, keyboard |-> 1, mouse |-> 1,
               input_tracked |-> 2]
rA2        == [client |-> "A", tracked |-> 1, keyboard |-> 0, mouse |-> 2,
               input_tracked |-> 1]
rNoClient  == [tracked |-> 1, keyboard |-> 2, mouse |-> 1, input_tracked |-> 1]
rUnknown   == [client |-> "unknown", tracked |-> 2, keyboard |-> 1, mouse |-> 2,
               input_tracked |-> 1]
rNoTracked == [client |-> "B", keyboard |-> 1, mouse |-> 1]

ActivityPool == {rA, rA2, rNoClient, rUnknown, rNoTracked}

Fields == {"tracked", "keyboard", "mouse", "input_tracked"}

\* the activity lists a page carries: sizes 0, 1 and 2
PageLists == {<<>>, <<rA>>, <<rNoClient, rA2>>}

----------------------------------------------------------------------------
(* fetch_activities.  A cursor is a JSON value, written as a string:       *)
(* "absent" (no next_page_start_id key), "null", "0" (the number zero),    *)
(* "101" and "102" (record ids).  Python's None is "None".                 *)

Cursors == {"absent", "null", "0", "101", "102"}

\* line 93: pagination.get("next_page_start_id")
PaginationGet(resp) ==
    IF resp.cursor \in {"absent", "null"} THEN "None" ELSE resp.cursor

\* lines 80 and 94: the truth value of page_start_id
Truthy(v) == v \notin {"None", "0", ""}

ErrorResponse == [status |-> 500, activities |-> <<>>, cursor |-> "absent"]

\* the answers to the n-th request; the last request the model follows is
\* answered by a page that ends the loop
ActivityResponses(n) ==
    LET all == {ErrorResponse}
               \cup {[status |-> StatusOK, activities |-> l, cursor |-> c]
                        : l \in PageLists, c \in Cursors}
    IN  IF n < MaxPages THEN all
        ELSE {r \in all : r.status # StatusOK \/ ~Truthy(PaginationGet(r))}

StatusAlwaysOk(resp) == TRUE

\* line 84: response.status_code != 200 raises
StatusOk(resp) == resp.status = StatusOK

ParamsNeverSet(p, psid) == p

\* lines 80-81: if page_start_id: params["page_start_id"] = page_start_id
NextParams(p, psid) == IF Truthy(psid) THEN psid ELSE p

ExtendReplaces(all, acts) == acts

\* line 89: all_activities.extend(activities)
Extend(all, acts) == all \o acts

----------------------------------------------------------------------------
(* summarize_by_client.  The summary dict keeps insertion order: it is a   *)
(* sequence of entries, one per client.                                    *)

\* a.get(f, 0)
Get(a, f) == IF f \in DOMAIN a THEN a[f] ELSE 0

ClientOfNoDefault(a) == IF "client" \in DOMAIN a THEN a.client ELSE ""

\* line 108: a.get("client", "unknown")
ClientOf(a) == IF "client" \in DOMAIN a THEN a.client ELSE "unknown"

\* the position of client c in the summary, 0 if it has no entry
IndexOf(s, c) ==
    IF \E i \in 1..Len(s) : s[i].client = c
    THEN CHOOSE i \in 1..Len(s) : s[i].client = c
    ELSE 0

NewEntry(c) == [client |-> c, tracked |-> 0, keyboard |-> 0, mouse |-> 0,
                input_tracked |-> 0]

\* lines 109-115
WithEntry(s, c) == IF IndexOf(s, c) = 0 THEN Append(s, NewEntry(c)) ELSE s

AddActivitySkipsFirst(s, a) ==
    LET c == ClientOf(a)
        i == IndexOf(s, c)
    IN  IF i = 0 THEN Append(s, NewEntry(c))
        ELSE [s EXCEPT ![i] = [@ EXCEPT
                 !.tracked       = @ + Get(a, "tracked"),
                 !.keyboard      = @ + Get(a, "keyboard"),
                 !.mouse         = @ + Get(a, "mouse"),
                 !.input_tracked = @ + Get(a, "input_tracked")]]

\* lines 108-120: one iteration of the loop
AddActivity(s, a) ==
    LET c  == ClientOf(a)
        s1 == WithEntry(s, c)
        i  == IndexOf(s1, c)
    IN  [s1 EXCEPT ![i] = [@ EXCEPT
            !.tracked       = @ + Get(a, "tracked"),
            !.keyboard      = @ + Get(a, "keyboard"),
            !.mouse         = @ + Get(a, "mouse"),
            !.input_tracked = @ + Get(a, "input_tracked")]]

RECURSIVE Accumulate(_, _)
\* lines 107-120: the loop over the activities, from the summary s
Accumulate(s, acts) ==
    IF acts = <<>> THEN s
    ELSE Accumulate(AddActivity(s, Head(acts)), Tail(acts))

\* line 124: round(tracked / 3600, 2), in hundredths of an hour.  The model's
\* totals stay below 18 seconds, where the quotient is no rounding tie.
TrackedHours(tracked) == (tracked * 100 + 1800) \div 3600

\* lines 105-126
summarize_by_client(acts) ==
    LET s == Accumulate(<<>>, acts)
    IN  [i \in 1..Len(s) |->
            [client |-> s[i].client, tracked |-> s[i].tracked,
             keyboard |-> s[i].keyboard, mouse |-> s[i].mouse,
             input_tracked |-> s[i].input_tracked,
             tracked_hours |-> TrackedHours(s[i].tracked)]]

----------------------------------------------------------------------------
(* export_to_csv: the header row, then one row per client.                 *)

Header == <<"client", "tracked_seconds", "tracked_hours", "keyboard", "mouse",
            "input_tracked">>

export_to_csv(s) ==
    <<Header>> \o [i \in 1..Len(s) |->
        <<s[i].client, s[i].tracked, s[i].tracked_hours, s[i].keyboard,
          s[i].mouse, s[i].input_tracked>>]

----------------------------------------------------------------------------
(* The __main__ pipeline, one process run. *)

Init ==
    /\ pc = "start"
    /\ now = StartTime
    /\ tokenFile \in InitFiles(StartTime)
    /\ issued = OldToken
    /\ lastCall = NoCall
    /\ lastRefresh = NoRefresh
    /\ access_token = NoToken
    /\ params = "unset"
    /\ page_start_id = "None"
    /\ all_activities = <<>>
    /\ requests = <<>>
    /\ responses = <<>>
    /\ activities = <<>>
    /\ summary = <<>>
    /\ csv = <<>>

\* line 146: access_token = get_access_token(); an exception ends the process
GetAccessToken ==
    /\ pc = "start"
    /\ \E resp \in TokenResponses(issued) :
          LET r    == get_access_token(tokenFile, now, resp)
              sent == r.refreshes = 1
          IN  /\ tokenFile' = r.file
              /\ access_token' = r.token
              /\ issued' = IF sent /\ resp.status = StatusOK THEN issued + 1 ELSE issued
              /\ lastCall' = [before |-> tokenFile, at |-> now, outcome |-> r.outcome,
                              token |-> r.token, refreshes |-> r.refreshes,
                              resp |-> IF sent THEN resp ELSE NoResp]
              /\ lastRefresh' = IF sent /\ resp.status = StatusOK
                                THEN [at |-> now, expires_in |-> resp.expires_in,
                                      access_token |-> resp.access_token]
                                ELSE lastRefresh
              /\ pc' = IF r.outcome \in {"cached", "refreshed"} THEN "fetch" ELSE "aborted"
    /\ UNCHANGED <<now, summary, csv>>
    /\ UNCHANGED fetchVars

\* lines 79-98: one iteration of the loop of fetch_activities, and, when the
\* loop ends, the return to line 147.  An exception unwinds the frame: its
\* locals are gone and __main__'s activities is never assigned.
FetchPage ==
    /\ pc = "fetch"
    /\ \E resp \in ActivityResponses(Len(requests) + 1) :
          LET p    == NextParams(params, page_start_id)
              all  == Extend(all_activities, resp.activities)
              next == PaginationGet(resp)
          IN  /\ requests' = Append(requests, p)
              /\ responses' = Append(responses, resp)
              /\ IF ~StatusOk(resp)
                 THEN /\ pc' = "aborted"
                      /\ params' = "unset"
                      /\ page_start_id' = "None"
                      /\ all_activities' = <<>>
                      /\ activities' = activities
                 ELSE /\ params' = p
                      /\ all_activities' = all
                      /\ page_start_id' = next
                      /\ IF Truthy(next)
                         THEN pc' = "fetch" /\ activities' = activities
                         ELSE pc' = "summarize" /\ activities' = all
    /\ UNCHANGED <<now, tokenFile, issued, lastCall, lastRefresh, access_token, summary, csv>>

\* line 148
Summarize ==
    /\ pc = "summarize"
    /\ summary' = summarize_by_client(activities)
    /\ pc' = "export"
    /\ UNCHANGED <<now, tokenFile, issued, lastCall, lastRefresh, access_token, csv>>
    /\ UNCHANGED fetchVars

\* line 149
Export ==
    /\ pc = "export"
    /\ csv' = export_to_csv(summary)
    /\ pc' = "done"
    /\ UNCHANGED <<now, tokenFile, issued, lastCall, lastRefresh, access_token, summary>>
    /\ UNCHANGED fetchVars

Next == GetAccessToken \/ FetchPage \/ Summarize \/ Export

Spec == Init /\ [][Next]_vars

----------------------------------------------------------------------------
(* The token cache over several runs.  The cache file outlives the process *)
(* and nothing after line 146 touches it, so a run is followed up to the   *)
(* return of get_access_token; the script is then run again at the same or *)
(* a later clock reading.                                                  *)

Rerun ==
    /\ pc \in {"fetch", "aborted"}
    /\ issued < MaxTokens
    /\ \E t \in now..(StartTime + MaxElapsed) : now' = t
    /\ pc' = "start"
    /\ access_token' = NoToken
    /\ UNCHANGED <<tokenFile, issued, lastCall, lastRefresh, summary, csv>>
    /\ UNCHANGED fetchVars

NextToken == GetAccessToken \/ Rerun

SpecToken == Init /\ [][NextToken]_vars

\* the first run finds no cache file
InitFresh == Init /\ tokenFile = NoFile

SpecFresh == InitFresh /\ [][NextToken]_vars

----------------------------------------------------------------------------
(* summarize_by_client and export_to_csv on any activity list. *)

RECURSIVE Lists(_)
Lists(n) ==
    IF n = 0 THEN {<<>>}
    ELSE Lists(n - 1)
         \cup {Append(l, a) : l \in {m \in Lists(n - 1) : Len(m) = n - 1},
                              a \in ActivityPool}

InitSummary ==
    /\ pc = "summarize"
    /\ now = StartTime
    /\ tokenFile = NoFile
    /\ issued = OldToken
    /\ lastCall = NoCall
    /\ lastRefresh = NoRefresh
    /\ access_token = OldToken
    /\ params = "unset"
    /\ page_start_id = "None"
    /\ all_activities = <<>>
    /\ requests = <<>>
    /\ responses = <<>>
    /\ activities \in Lists(MaxLen)
    /\ summary = <<>>
    /\ csv = <<>>

NextSummary == Summarize \/ Export

SpecSummary == InitSummary /\ [][NextSummary]_vars

----------------------------------------------------------------------------
(* Properties of get_access_token (SpecToken, SpecFresh) *)

Called == lastCall.outcome # "none"

\* the file is a complete token record whose timestamp parses
WellFormed(f) == Parses(f) /\ "access_token" \in f.keys

\* the file exists but json.load, a key lookup or fromisoformat fails on it
Unparsable(f) ==
    /\ f.exists
    /\ \/ ~f.json
       \/ "access_token" \notin f.keys
       \/ "expires_at" \notin f.keys
       \/ ~IsIsoFormat(f.expires_at)

\* the record a refresh answered by resp at time t must leave on disk
FreshRecord(resp, t) ==
    TokenRecord(resp.access_token, isoformat(t + resp.expires_in - 60))

\* C1: a call that finds a cache record whose expires_at is strictly later
\* than the clock returns the cached access_token, calls refresh_access_token
\* zero times and leaves the file as it was, so that any later call inside the
\* validity window finds the same record and answers the same.
C1_CachedTokenReused ==
    (/\ Called
     /\ WellFormed(lastCall.before)
     /\ lastCall.at < fromisoformat(lastCall.before.expires_at))
    => /\ lastCall.outcome = "cached"
       /\ lastCall.token = lastCall.before.access_token
       /\ lastCall.refreshes = 0
       /\ tokenFile = lastCall.before

\* a cache hit, at a later clock reading, on the record an earlier run's
\* refresh wrote
C1_Witness ==
    /\ lastCall.outcome = "cached"
    /\ lastRefresh.at >= 0
    /\ lastCall.at > lastRefresh.at
    /\ lastCall.token = lastRefresh.access_token

\* C2: a call that finds a cache record whose expires_at is equal to or
\* earlier than the clock calls refresh_access_token exactly once and never
\* returns the cached token; when the token endpoint issues a token, the file
\* is overwritten with the new record and the new token is returned (when it
\* does not, the call raises and the file stays).
C2_ExpiredTokenRefreshed ==
    (/\ Called
     /\ Parses(lastCall.before)
     /\ lastCall.at >= fromisoformat(lastCall.before.expires_at))
    => /\ lastCall.refreshes = 1
       /\ lastCall.outcome # "cached"
       /\ lastCall.resp.status = StatusOK
            => /\ lastCall.outcome = "refreshed"
               /\ lastCall.token = lastCall.resp.access_token
               /\ lastCall.token # lastCall.before.access_token
               /\ tokenFile = FreshRecord(lastCall.resp, lastCall.at)
       /\ lastCall.resp.status # StatusOK
            => /\ lastCall.outcome = "refresh_error"
               /\ tokenFile = lastCall.before

\* a refresh at the boundary: expires_at exactly equal to the clock
C2_Witness ==
    /\ lastCall.outcome = "refreshed"
    /\ WellFormed(lastCall.before)
    /\ lastCall.at = fromisoformat(lastCall.before.expires_at)
    /\ tokenFile.access_token = lastCall.token

\* C3: a missing cache file, and one that cannot be parsed, are a cache miss:
\* the call does not abort on the file, calls refresh_access_token, and when
\* a token is issued persists the new record and returns the new token.
C3_CacheProblemIsMiss ==
    (Called /\ (~lastCall.before.exists \/ Unparsable(lastCall.before)))
    => /\ lastCall.outcome # "cache_error"
       /\ lastCall.refreshes = 1
       /\ lastCall.resp.status = StatusOK
            => /\ lastCall.outcome = "refreshed"
               /\ lastCall.token = lastCall.resp.access_token
               /\ tokenFile = FreshRecord(lastCall.resp, lastCall.at)

\* C9: starting from no cache file, the persisted expires_at is the time of
\* the most recent refresh plus the reported expires_in minus 60 seconds, and
\* a token is returned from the cache only while more than 60 seconds of that
\* lifetime are left.
C9_ExpiryHasBuffer ==
    /\ lastRefresh.at < 0 => (tokenFile = NoFile /\ lastCall.outcome # "cached")
    /\ lastRefresh.at >= 0 =>
          /\ WellFormed(tokenFile)
          /\ fromisoformat(tokenFile.expires_at)
                = lastRefresh.at + lastRefresh.expires_in - 60
          /\ tokenFile.access_token = lastRefresh.access_token
    /\ lastCall.outcome = "cached" =>
          /\ lastCall.token = lastRefresh.access_token
          /\ (lastRefresh.at + lastRefresh.expires_in) - lastCall.at > 60

\* a token taken from the cache one second after the refresh that wrote it,
\* its last second of use
C9_Witness ==
    /\ lastCall.outcome = "cached"
    /\ lastRefresh.at >= 0
    /\ lastCall.at = lastRefresh.at + 1
    /\ (lastRefresh.at + lastRefresh.expires_in) - lastCall.at = 61

----------------------------------------------------------------------------
(* Properties of the pipeline and of fetch_activities (Spec) *)

RECURSIVE Concat(_)
\* the activity lists of a sequence of pages, one after the other
Concat(pages) ==
    IF pages = <<>> THEN <<>>
    ELSE Head(pages).activities \o Concat(Tail(pages))

RECURSIVE SumSizes(_)
SumSizes(pages) ==
    IF pages = <<>> THEN 0
    ELSE Len(Head(pages).activities) + SumSizes(Tail(pages))

Returned == pc \in {"summarize", "export", "done"}

\* C4: when every answer is a 200 page that either carries a next-page cursor
\* (a record id) or has no cursor, the fetch goes on after each page with a
\* cursor, returns at the first page without one, has then sent as many
\* requests as pages were answered, and returns the concatenation of the
\* pages' activity lists in page order: s1 + ... + sk records.
C4_PaginationComplete ==
    LET k == Len(responses)
    IN  (/\ k > 0
         /\ \A i \in 1..k : /\ responses[i].status = StatusOK
                            /\ responses[i].cursor \in {"absent", "101", "102"})
        => /\ \A i \in 1..(k - 1) : responses[i].cursor # "absent"
           /\ Len(requests) = k
           /\ IF responses[k].cursor # "absent"
              THEN /\ pc = "fetch"
                   /\ all_activities = Concat(responses)
              ELSE /\ Returned
                   /\ activities = Concat(responses)
                   /\ Len(activities) = SumSizes(responses)

\* three pages of sizes 2, 1 and 2 fetched and returned
C4_Witness ==
    /\ Returned
    /\ Len(responses) = 3
    /\ \A i \in 1..3 : responses[i].status = StatusOK
    /\ responses[1].cursor = "101" /\ responses[2].cursor = "102"
    /\ responses[3].cursor = "absent"
    /\ Len(responses[1].activities) = 2
    /\ Len(responses[2].activities) = 1
    /\ Len(activities) = 5

\* C5: once the token endpoint has answered a refresh with a non-200 status,
\* the run is aborted: no request is sent to the activities endpoint, nothing
\* is aggregated and no CSV is written.
C5_NoFetchAfterFailedRefresh ==
    (lastCall.refreshes = 1 /\ lastCall.resp.status # StatusOK)
    => /\ pc = "aborted"
       /\ Len(requests) = 0
       /\ Len(responses) = 0
       /\ Len(activities) = 0
       /\ Len(summary) = 0
       /\ Len(csv) = 0

\* a refresh of an expired record refused by the token endpoint
C5_Witness ==
    /\ lastCall.outcome = "refresh_error"
    /\ lastCall.resp.status = 401
    /\ lastCall.before.exists
    /\ pc = "aborted"

\* C6: a non-200 answer of the activities endpoint, on any page, is the last
\* answer of the run: no request follows it, the run is aborted, the
\* activities of the earlier pages are gone and no CSV is written.
C6_ApiErrorAborts ==
    \A i \in 1..Len(responses) :
        responses[i].status # StatusOK
        => /\ i = Len(responses)
           /\ Len(requests) = i
           /\ pc = "aborted"
           /\ Len(all_activities) = 0
           /\ Len(activities) = 0
           /\ Len(summary) = 0
           /\ Len(csv) = 0

\* a failure on the third page, after two pages that carried records
C6_Witness ==
    /\ Len(responses) = 3
    /\ responses[3].status # StatusOK
    /\ Len(responses[1].activities) > 0
    /\ Len(responses[2].activities) > 0
    /\ pc = "aborted"

\* what the loop does after the i-th answer: "continues with cursor c"
ContinuesWith(i, c) ==
    \/ i < Len(requests) /\ requests[i + 1] = c
    \/ i = Len(requests) /\ pc = "fetch" /\ page_start_id = c

\* C10, as claimed: the first request has no page_start_id; after a 200
\* answer whose pagination has a next_page_start_id, whatever its value, the
\* next request carries exactly that cursor, and after a 200 answer without
\* one the loop has ended.
C10_CursorAlwaysFollowed ==
    /\ Len(requests) > 0 => requests[1] = "unset"
    /\ \A i \in 1..Len(responses) :
          responses[i].status = StatusOK
          => IF responses[i].cursor # "absent"
             THEN ContinuesWith(i, responses[i].cursor)
             ELSE i = Len(requests) /\ Returned

\* C10, amended: the same for a next_page_start_id that is not null, zero or
\* empty; after a 200 answer whose cursor is missing, null, zero or empty the
\* loop has ended and no request follows.
C10_TruthyCursorFollowed ==
    /\ Len(requests) > 0 => requests[1] = "unset"
    /\ \A i \in 1..Len(responses) :
          responses[i].status = StatusOK
          => IF responses[i].cursor \notin {"absent", "null", "0", ""}
             THEN ContinuesWith(i, responses[i].cursor)
             ELSE i = Len(requests) /\ Returned

\* three requests: none, then the first page's cursor, then the second's
C10_Witness ==
    /\ Len(requests) = 3
    /\ requests[1] = "unset"
    /\ requests[2] = "102" /\ responses[1].cursor = "102"
    /\ requests[3] = "101" /\ responses[2].cursor = "101"
    /\ Returned

----------------------------------------------------------------------------
(* Properties of summarize_by_client (SpecSummary) *)

RECURSIVE SumSel(_, _, _)
\* the sum of field f over the elements of seq at the positions in sel
SumSel(seq, f, sel) ==
    IF sel = {} THEN 0
    ELSE LET i == CHOOSE j \in sel : TRUE
         IN  Get(seq[i], f) + SumSel(seq, f, sel \ {i})

Summarized == pc \in {"export", "done"}

\* the positions of the activities that lack a client field
Clientless == {i \in 1..Len(activities) : "client" \notin DOMAIN activities[i]}

\* the positions of the activities whose client field is c
Of(c) == {i \in 1..Len(activities) :
             "client" \in DOMAIN activities[i] /\ activities[i].client = c}

\* C7: the per-client summaries conserve the totals: for tracked, keyboard,
\* mouse and input_tracked, the sum over the summary entries is the sum over
\* the input records (a missing field counting 0).
C7_TotalsConserved ==
    Summarized =>
        \A f \in Fields :
            SumSel(summary, f, 1..Len(summary))
                = SumSel(activities, f, 1..Len(activities))

\* a full-length input over several clients, one record without tracked
C7_Witness ==
    /\ pc = "done"
    /\ Len(activities) = MaxLen
    /\ Len(summary) >= 2
    /\ \E i \in 1..Len(activities) : "tracked" \notin DOMAIN activities[i]
    /\ SumSel(summary, "tracked", 1..Len(summary)) >= 3

\* C8: when some record lacks a client field, the summary has exactly one
\* "unknown" entry; it totals the records without a client together with
\* those whose client is "unknown", and every other entry totals only the
\* records that name its client.
C8_MissingClientIsUnknown ==
    (Summarized /\ Clientless # {}) =>
        /\ Cardinality({i \in 1..Len(summary) : summary[i].client = "unknown"}) = 1
        /\ \A i \in 1..Len(summary) : \A f \in Fields :
              summary[i][f] =
                 IF summary[i].client = "unknown"
                 THEN SumSel(activities, f, Clientless \cup Of("unknown"))
                 ELSE SumSel(activities, f, Of(summary[i].client))

\* records without a client next to records of clients "unknown" and "A"
C8_Witness ==
    /\ pc = "done"
    /\ Clientless # {}
    /\ Of("unknown") # {}
    /\ Of("A") # {}
    /\ Len(summary) = 2

====
